---- MODULE Spec2Model ----
(***************************************************************************)
(* Team assignment of the partnership application: DatabaseStorage         *)
(* (createUser, assignUserToTeam, ensureUserInTeam) running against the    *)
(* PostgreSQL tables and constraints declared in the shared schema.        *)
(*                                                                         *)
(* The store is the committed content of the tables.  createUser opens a   *)
(* transaction on a dedicated pool client (tx) and inserts the user row    *)
(* there; assignUserToTeam and ensureUserInTeam issue their statements on  *)
(* `db`, i.e. on other pool connections, each statement committing on its  *)
(* own and seeing committed rows only (READ COMMITTED).  Every awaited     *)
(* statement is one atomic step of the calling request.                    *)
(*                                                                         *)
(* Next to it: createAdministrator, and the connection handling of db.ts   *)
(* (resolution at load, switchDatabase, getConnectionDiagnostics).         *)
(***************************************************************************)
EXTENDS Integers, Sequences, FiniteSets, TLC

VARIABLES
    companies,            \* committed rows of table companies
    users,                \* committed rows of table users
    partnerships,         \* committed rows of table partnerships (teams)
    partnershipMembers,   \* committed rows of table partnership_members
    nextId,               \* source of fresh row ids and of createdAt stamps
    mode,                 \* which part of the program runs, and how requests arrive
    proc,                 \* per request: position in the code and its locals
    calls,                \* log of the finished createUser calls, in order
    administrators,       \* committed rows of table administrators
    adminProc,            \* per request: position in createAdministrator and its locals
    environ,              \* process.env: DB_URL_OVERRIDE and DATABASE_URL
    files,                \* /tmp/db-override and /tmp/replitdb
    connectionString,     \* module variable of db.ts
    connectionSource,     \* module variable of db.ts
    pool,                 \* the active pool: the connection string it was opened with
    diagnostics           \* what getConnectionDiagnostics returned last

adminVars == <<administrators, adminProc>>

connVars == <<environ, files, connectionString, connectionSource, pool, diagnostics>>

vars ==
    <<companies, users, partnerships, partnershipMembers, nextId, mode, proc, calls,
      administrators, adminProc,
      environ, files, connectionString, connectionSource, pool, diagnostics>>

(***************************************************************************)
(* Bounds of the model.                                                    *)
(***************************************************************************)
NumProcs == 2          \* requests in flight at the same time
MaxCalls == 2          \* createUser calls in one behaviour of concurrent requests
MaxJoins == 5          \* createUser calls in one behaviour of sequential requests
NumCompanies == 1      \* companies created in one behaviour
MaxInvocations == 2    \* direct invocations of ensureUserInTeam in one behaviour

Procs == 1..NumProcs
CompanyIds == 1..NumCompanies

\* A null column value (users.companyId is nullable); row ids start at 1.
NULL == 0

\* Team sizes a request may carry: the schema default 4, the smallest legal
\* size 2, and the out-of-range size 1.
GroupSizeInputs == {1, 2, 4}

(***************************************************************************)
(* JavaScript numbers, as far as the team-number formula produces them.    *)
(***************************************************************************)
Num(n) == [k |-> "num", v |-> n]
NaN == [k |-> "nan", v |-> 0]
PosInfinity == [k |-> "+inf", v |-> 0]
NegInfinity == [k |-> "-inf", v |-> 0]

isFinite(x) == x.k = "num"

\* x < y of JavaScript
jsLess(x, y) ==
    IF x.k = "nan" \/ y.k = "nan" THEN FALSE
    ELSE IF x.k = "-inf" THEN y.k # "-inf"
    ELSE IF x.k = "+inf" THEN FALSE
    ELSE IF y.k = "+inf" THEN TRUE
    ELSE IF y.k = "-inf" THEN FALSE
    ELSE x.v < y.v

\* Math.floor(a / b) for integers a and b # 0
FloorDiv(a, b) == IF b > 0 THEN a \div b ELSE (0 - a) \div (0 - b)

\* Math.floor((userPosition - 1) / (groupSize - 1)) + 1
membershipTeamNumber(userPosition, groupSize) ==
    LET a == userPosition - 1
        b == groupSize - 1
    IN  IF b = 0
        THEN IF a = 0 THEN NaN ELSE IF a > 0 THEN PosInfinity ELSE NegInfinity
        ELSE Num(FloorDiv(a, b) + 1)

leadershipTeamNumber(userPosition) == Num(userPosition)

(***************************************************************************)
(* Reading the store through `db`.                                         *)
(***************************************************************************)
RECURSIVE orderByCreatedAt(_)
orderByCreatedAt(S) ==
    IF S = {} THEN <<>>
    ELSE LET first == CHOOSE x \in S : \A y \in S : x.createdAt <= y.createdAt
         IN  <<first>> \o orderByCreatedAt(S \ {first})

\* db.select().from(users).where(companyId = c).orderBy(asc(createdAt)):
\* the committed rows; a row inserted by an open transaction is not among them.
selectUsersByCompany(U, c) == orderByCreatedAt({u \in U : u.companyId = c})

\* A findIndex that finds the row of the caller behind the rows read.
findIndexOwnRowLast(list, userId) == Len(list)

\* allUsers.findIndex(user => user.id === userId)
findIndex(list, userId) ==
    IF \E i \in 1..Len(list) : list[i].id = userId
    THEN (CHOOSE i \in 1..Len(list) :
              /\ list[i].id = userId
              /\ \A j \in 1..(i - 1) : list[j].id # userId) - 1
    ELSE -1

userPosition(U, c, userId) == findIndex(selectUsersByCompany(U, c), userId) + 1

selectCompany(C, c) == {x \in C : x.id = c}

\* select from partnerships where companyId = c and teamNumber = n
selectTeam(P, c, n) == {t \in P : t.companyId = c /\ t.teamNumber = n}

(***************************************************************************)
(* The constraints of the tables.                                          *)
(***************************************************************************)
\* `MAKECENTSGRO-T${teamNumber}`
groupIdOf(teamNumber) == <<"MAKECENTSGRO-T", teamNumber>>

ActiveStatuses == {"filling", "complete"}
Statuses == {"filling", "complete", "inactive"}

validTeamNumber(row) == row.teamNumber > 0 /\ row.teamNumber <= 1000

uniqueGroupId(P, row) == \A t \in P : t.groupId # row.groupId

uniqueActiveLeaderIndexWrongStatus(P, row) ==
    row.status = "complete" =>
        \A t \in P : ~(/\ t.status = "complete"
                       /\ t.leaderId = row.leaderId
                       /\ t.companyId = row.companyId)

uniqueActiveLeaderIndex(P, row) ==
    row.status \in ActiveStatuses =>
        \A t \in P : ~(/\ t.status \in ActiveStatuses
                       /\ t.leaderId = row.leaderId
                       /\ t.companyId = row.companyId)

uniqueFillingTeamIndexWrongStatus(P, row) ==
    row.status = "complete" =>
        \A t \in P : ~(t.status = "complete" /\ t.companyId = row.companyId)

uniqueFillingTeamIndex(P, row) ==
    row.status = "filling" =>
        \A t \in P : ~(t.status = "filling" /\ t.companyId = row.companyId)

uniqueCompanyTeam(P, row) ==
    \A t \in P : ~(t.companyId = row.companyId /\ t.teamNumber = row.teamNumber)

\* references(() => companies.id) and references(() => users.id): the
\* referenced row has to be a committed one.
references(T, id) == \E r \in T : r.id = id

\* The insert of a team row with no unique index or constraint enforced.
partnershipsInsertErrorNoUnique(P, U, C, row) ==
    IF ~validTeamNumber(row) THEN "valid_team_number"
    ELSE IF ~references(C, row.companyId) THEN "partnerships_company_id_fk"
    ELSE IF ~references(U, row.leaderId) THEN "partnerships_leader_id_fk"
    ELSE "none"

\* What the store answers to the insert of a team row: the constraint it
\* violates, or "none".
partnershipsInsertError(P, U, C, row) ==
    IF ~validTeamNumber(row) THEN "valid_team_number"
    ELSE IF ~uniqueGroupId(P, row) THEN "partnerships_group_id_unique"
    ELSE IF ~uniqueActiveLeaderIndex(P, row) THEN "unique_active_leader_idx"
    ELSE IF ~uniqueFillingTeamIndex(P, row) THEN "unique_filling_team_idx"
    ELSE IF ~uniqueCompanyTeam(P, row) THEN "unique_company_team"
    ELSE IF ~references(C, row.companyId) THEN "partnerships_company_id_fk"
    ELSE IF ~references(U, row.leaderId) THEN "partnerships_leader_id_fk"
    ELSE "none"

uniquePartnershipUserOff(M, row) == TRUE

uniquePartnershipUser(M, row) ==
    \A m \in M : ~(m.partnershipId = row.partnershipId /\ m.userId = row.userId)

partnershipMembersInsertError(M, P, U, row) ==
    IF ~uniquePartnershipUser(M, row) THEN "unique_partnership_user"
    ELSE IF ~references(P, row.partnershipId) THEN "partnership_members_partnership_id_fk"
    ELSE IF ~references(U, row.userId) THEN "partnership_members_user_id_fk"
    ELSE "none"

usersInsertError(C, row) ==
    IF row.companyId # NULL /\ ~references(C, row.companyId)
    THEN "users_company_id_fk"
    ELSE "none"

\* Every constraint of the schema holds of the stored rows.
SchemaHolds(C, U, P, M) ==
    /\ \A u \in U : usersInsertError(C, u) = "none"
    /\ \A t \in P : partnershipsInsertError(P \ {t}, U, C, t) = "none"
    /\ \A m \in M : partnershipMembersInsertError(M \ {m}, P, U, m) = "none"

(***************************************************************************)
(* The transaction of createUser.                                          *)
(***************************************************************************)
txRollbackKeepsRow(U, row) == U \cup {row}

\* The callback threw: ROLLBACK discards the row inserted through tx.
txRollback(U, row) == U

\* The callback returned: COMMIT makes the row inserted through tx visible.
txCommit(U, row) == U \cup {row}

(***************************************************************************)
(* Administrators, and the connection of db.ts, at rest.                   *)
(***************************************************************************)
IdleAdmin == [pc |-> "idle", email |-> ""]

AdminQuiet ==
    /\ administrators = {}
    /\ adminProc = [p \in Procs |-> IdleAdmin]

\* A connection string postgres://user:pw@host/db, as far as the code looks
\* into it: the password it masks and the host it extracts.  EmptyString is
\* '' (and an unset environment variable: both are falsy).
Url(pw, host) == [pw |-> pw, host |-> host]
EmptyString == Url("", "")

NoFile == [exists |-> FALSE, content |-> EmptyString]
File(content) == [exists |-> TRUE, content |-> content]

\* by: what opened the pool ("none" before db.ts is loaded, "failed" when
\* loading threw).
NoPool == [connectionString |-> EmptyString, by |-> "none"]

NoDiagnostics == [source |-> "none", host |-> "", maskedUrl |-> EmptyString, pool |-> NoPool]

ConnQuiet ==
    /\ environ = [DB_URL_OVERRIDE |-> EmptyString, DATABASE_URL |-> EmptyString]
    /\ files = [dbOverride |-> NoFile, replitdb |-> NoFile]
    /\ connectionString = EmptyString
    /\ connectionSource = "env"
    /\ pool = NoPool
    /\ diagnostics = NoDiagnostics

(***************************************************************************)
(* Requests.                                                               *)
(***************************************************************************)
NoRow == [id |-> NULL, companyId |-> NULL, createdAt |-> 0]

IdleProc ==
    [pc |-> "idle", user |-> NoRow, userId |-> NULL, companyId |-> NULL,
     groupSize |-> 0, position |-> 0, teamNumber |-> Num(0), isLeader |-> FALSE,
     teamId |-> NULL, ret |-> "idle", err |-> "none", swallowed |-> "none",
     wrote |-> {}, invocations |-> 0, outcomes |-> <<>>]

Busy(p) == proc[p].pc # "idle"

Set(p, r) == proc' = [proc EXCEPT ![p] = r]

Init ==
    /\ companies = {}
    /\ users = {}
    /\ partnerships = {}
    /\ partnershipMembers = {}
    /\ nextId = 1
    /\ mode = "concurrent"
    /\ proc = [p \in Procs |-> IdleProc]
    /\ calls = <<>>
    /\ AdminQuiet
    /\ ConnQuiet

\* The same program with every createUser call finishing before the next starts.
SeqInit ==
    /\ companies = {}
    /\ users = {}
    /\ partnerships = {}
    /\ partnershipMembers = {}
    /\ nextId = 1
    /\ mode = "sequential"
    /\ proc = [p \in Procs |-> IdleProc]
    /\ calls = <<>>
    /\ AdminQuiet
    /\ ConnQuiet


\* An insert that leaves the new row as the only row of the table.
insertRowReplacing(T, row) == {row}

\* db.insert(table).values(row), accepted by the store: the table gains the row.
insertRow(T, row) == T \cup {row}

(***************************************************************************)
(* ensureUserInTeam(userId, teamNumber, companyId, isLeader): one step per *)
(* awaited statement.  isLeader is not read by the code.                   *)
(***************************************************************************)
ensureUserInTeam(p) ==
    LET r == proc[p]
        n == r.teamNumber
    IN
    /\ r.pc \in {"ensure_select", "ensure_insert_team", "ensure_insert_member"}
    /\ UNCHANGED <<companies, users, mode, calls, adminVars, connVars>>
    /\ IF r.pc = "ensure_select"
       THEN /\ UNCHANGED <<partnerships, partnershipMembers, nextId>>
            /\ IF ~isFinite(n)
               THEN \* an integer column compared with a non-finite parameter
                    Set(p, [r EXCEPT !.pc = "throw", !.err = "invalid_integer_parameter"])
               ELSE LET existingTeam == selectTeam(partnerships, r.companyId, n.v)
                    IN  IF existingTeam = {}
                        THEN Set(p, [r EXCEPT !.pc = "ensure_insert_team"])
                        ELSE Set(p, [r EXCEPT !.pc = "ensure_insert_member",
                                              !.teamId = (CHOOSE t \in existingTeam : TRUE).id])
       ELSE IF r.pc = "ensure_insert_team"
       THEN LET newTeam == [id |-> nextId, groupId |-> groupIdOf(n.v),
                            companyId |-> r.companyId, teamNumber |-> n.v,
                            leaderId |-> r.userId, status |-> "filling"]
                e == partnershipsInsertError(partnerships, users, companies, newTeam)
            IN  /\ UNCHANGED partnershipMembers
                /\ IF e = "none"
                   THEN /\ partnerships' = insertRow(partnerships, newTeam)
                        /\ nextId' = nextId + 1
                        /\ Set(p, [r EXCEPT !.pc = "ensure_insert_member",
                                            !.teamId = newTeam.id,
                                            !.wrote = @ \cup {newTeam.id}])
                   ELSE /\ UNCHANGED <<partnerships, nextId>>
                        /\ Set(p, [r EXCEPT !.pc = "throw", !.err = e])
       ELSE LET member == [id |-> nextId, partnershipId |-> r.teamId, userId |-> r.userId]
                e == partnershipMembersInsertError(partnershipMembers, partnerships, users, member)
            IN  /\ UNCHANGED partnerships
                /\ IF e = "none"
                   THEN /\ partnershipMembers' = insertRow(partnershipMembers, member)
                        /\ nextId' = nextId + 1
                        /\ Set(p, [r EXCEPT !.pc = r.ret, !.swallowed = "none",
                                            !.wrote = @ \cup {member.id}])
                   ELSE \* catch (error) { console.log(...) }
                        /\ UNCHANGED <<partnershipMembers, nextId>>
                        /\ Set(p, [r EXCEPT !.pc = r.ret, !.swallowed = e])

(***************************************************************************)
(* assignUserToTeam(userId, companyId)                                     *)
(***************************************************************************)
assignUserToTeam(p) ==
    LET r == proc[p] IN
    /\ r.pc \in {"assign_company", "assign_users", "assign_after_member", "assign_after_leader"}
    /\ UNCHANGED <<companies, users, partnerships, partnershipMembers, nextId, mode, calls,
                   adminVars, connVars>>
    /\ IF r.pc = "assign_company"
       THEN LET company == selectCompany(companies, r.companyId)
            IN  IF company = {}
                THEN Set(p, [r EXCEPT !.pc = "throw", !.err = "Company not found"])
                ELSE Set(p, [r EXCEPT !.pc = "assign_users",
                                      !.groupSize = (CHOOSE c \in company : TRUE).groupSize])
       ELSE IF r.pc = "assign_users"
       THEN LET pos == userPosition(users, r.companyId, r.userId)
                leadership == leadershipTeamNumber(pos)
                membership == membershipTeamNumber(pos, r.groupSize)
            IN  IF jsLess(membership, leadership)
                THEN Set(p, [r EXCEPT !.pc = "ensure_select", !.position = pos,
                                      !.teamNumber = membership, !.isLeader = FALSE,
                                      !.ret = "assign_after_member"])
                ELSE Set(p, [r EXCEPT !.pc = "ensure_select", !.position = pos,
                                      !.teamNumber = leadership, !.isLeader = TRUE,
                                      !.ret = "assign_after_leader"])
       ELSE IF r.pc = "assign_after_member"
       THEN Set(p, [r EXCEPT !.pc = "ensure_select",
                             !.teamNumber = leadershipTeamNumber(r.position),
                             !.isLeader = TRUE, !.ret = "assign_after_leader"])
       ELSE Set(p, [r EXCEPT !.pc = "tx_commit"])

(***************************************************************************)
(* createUser(insertUser): the transaction around the user insert and the  *)
(* assignment.                                                             *)
(***************************************************************************)
hasCompanyAlways(user) == TRUE

\* if (user.companyId)
hasCompany(user) == user.companyId # NULL

CallsStarted ==
    Len(calls) + Cardinality({q \in Procs : proc[q].pc # "idle" /\ proc[q].invocations = 0})

CallRecord(r, result) ==
    [userId |-> r.userId, companyId |-> r.companyId, result |-> result, err |-> r.err,
     groupSize |-> r.groupSize, wrote |-> r.wrote]

createUser(p) ==
    LET r == proc[p] IN
    /\ r.pc \in {"idle", "tx_commit", "throw"}
    /\ r.invocations = 0
    /\ mode \in {"concurrent", "sequential"}
    /\ UNCHANGED <<companies, partnerships, partnershipMembers, mode, adminVars, connVars>>
    /\ IF r.pc = "idle"
       THEN /\ IF mode = "sequential"
               THEN CallsStarted < MaxJoins /\ \A q \in Procs : ~Busy(q)
               ELSE CallsStarted < MaxCalls
            /\ \E c \in CompanyIds \cup {NULL} :
                 LET user == [id |-> nextId, companyId |-> c, createdAt |-> nextId]
                     e == usersInsertError(companies, user)
                 IN  IF e = "none"
                     THEN /\ nextId' = nextId + 1
                          /\ Set(p, [r EXCEPT !.pc = IF hasCompany(user)
                                                     THEN "assign_company" ELSE "tx_commit",
                                              !.user = user, !.userId = user.id,
                                              !.companyId = c, !.wrote = {user.id}])
                     ELSE /\ UNCHANGED nextId
                          /\ Set(p, [r EXCEPT !.pc = "throw", !.err = e, !.companyId = c])
            /\ UNCHANGED <<users, calls>>
       ELSE IF r.pc = "tx_commit"
       THEN /\ users' = txCommit(users, r.user)
            /\ calls' = Append(calls, CallRecord(r, "ok"))
            /\ Set(p, IdleProc)
            /\ UNCHANGED nextId
       ELSE /\ users' = IF r.user = NoRow THEN users ELSE txRollback(users, r.user)
            /\ calls' = Append(calls, CallRecord(r, "error"))
            /\ Set(p, IdleProc)
            /\ UNCHANGED nextId

(***************************************************************************)
(* POST /api/companies and PATCH /api/companies/:id/group-size             *)
(***************************************************************************)
createCompany(groupSize) ==
    /\ Cardinality(companies) < NumCompanies
    /\ companies' = companies \cup {[id |-> Cardinality(companies) + 1, groupSize |-> groupSize]}
    /\ UNCHANGED <<users, partnerships, partnershipMembers, nextId, mode, proc, calls,
                   adminVars, connVars>>

updateCompanyGroupSize(companyId, groupSize) ==
    /\ companies' =
         IF groupSize = 0 \/ groupSize < 2 \/ groupSize > 10
         THEN companies
         ELSE {IF c.id = companyId THEN [c EXCEPT !.groupSize = groupSize] ELSE c : c \in companies}
    /\ UNCHANGED <<users, partnerships, partnershipMembers, nextId, mode, proc, calls,
                   adminVars, connVars>>

Next ==
    \/ \E g \in GroupSizeInputs : createCompany(g)
    \/ \E c \in CompanyIds, g \in GroupSizeInputs : updateCompanyGroupSize(c, g)
    \/ \E p \in Procs : createUser(p)
    \/ \E p \in Procs : assignUserToTeam(p)
    \/ \E p \in Procs : ensureUserInTeam(p)

Spec == Init /\ [][Next]_vars

SeqSpec == SeqInit /\ [][Next]_vars

(***************************************************************************)
(* ensureUserInTeam called directly: the store holds any rows the schema   *)
(* admits, and each caller invokes ensureUserInTeam with arguments of its  *)
(* choice, then again with the same arguments.                             *)
(***************************************************************************)
\* The rows the store holds when ensureUserInTeam is called directly, and the
\* arguments of the calls.
StoredCompanyIds == {1, 2}
DirectCallers == {1, 2}
StoredUserIds == {1, 2, 3}
TeamNumberInputs == {1, 2}

\* A user whose row sits in an open transaction: it has an id, and no
\* committed row.
PendingUserId == Cardinality(StoredUserIds) + 1

\* The team size of the stored companies: the schema default for the first,
\* the smallest legal size for the others.
StoredGroupSize(c) == IF c = 1 THEN 4 ELSE 2

StoredTeamId(teamNumber) == PendingUserId + teamNumber
StoredMemberId(teamNumber) == PendingUserId + Cardinality(TeamNumberInputs) + teamNumber

StoredTeam(n, c, u, st) ==
    [id |-> StoredTeamId(n), groupId |-> groupIdOf(n), companyId |-> c,
     teamNumber |-> n, leaderId |-> u, status |-> st]

StoredTeams ==
    {StoredTeam(n, c, u, st) :
        n \in TeamNumberInputs, c \in StoredCompanyIds, u \in StoredUserIds, st \in Statuses}

LeaderMembers(P) ==
    {[id |-> StoredMemberId(t.teamNumber), partnershipId |-> t.id, userId |-> t.leaderId] :
        t \in P}

EnsureInit ==
    /\ companies = {[id |-> c, groupSize |-> StoredGroupSize(c)] : c \in StoredCompanyIds}
    /\ users = {[id |-> u, companyId |-> 1, createdAt |-> u] : u \in StoredUserIds}
    /\ partnerships \in {{}} \cup {{t} : t \in StoredTeams}
    /\ partnershipMembers = LeaderMembers(partnerships)
    /\ SchemaHolds(companies, users, partnerships, partnershipMembers)
    /\ nextId = PendingUserId + 2 * Cardinality(TeamNumberInputs) + 1
    /\ mode = "direct"
    /\ proc = [p \in Procs |-> IdleProc]
    /\ calls = <<>>
    /\ AdminQuiet
    /\ ConnQuiet

Outcome(r) == [result |-> r.pc, err |-> r.err, swallowed |-> r.swallowed]

RECURSIVE Invocations(_)
Invocations(S) ==
    IF S = {} THEN 0
    ELSE LET q == CHOOSE x \in S : TRUE
         IN  proc[q].invocations + Invocations(S \ {q})

directCall(p) ==
    LET r == proc[p] IN
    /\ mode = "direct"
    /\ r.pc \in {"idle", "returned", "throw"}
    /\ Invocations(Procs) < MaxInvocations
    /\ UNCHANGED <<companies, users, partnerships, partnershipMembers, nextId, mode, calls,
                   adminVars, connVars>>
    /\ IF r.pc = "idle"
       THEN \E u \in StoredUserIds \cup {PendingUserId}, n \in TeamNumberInputs,
               c \in StoredCompanyIds, l \in BOOLEAN :
                /\ \A q \in DirectCallers : q < p => Busy(q)
                /\ Set(p, [r EXCEPT !.pc = "ensure_select", !.userId = u,
                                 !.teamNumber = Num(n), !.companyId = c,
                                 !.isLeader = l, !.ret = "returned",
                                 !.invocations = 1])
       ELSE Set(p, [r EXCEPT !.pc = "ensure_select", !.err = "none",
                             !.swallowed = "none", !.teamId = NULL,
                             !.invocations = @ + 1,
                             !.outcomes = Append(@, Outcome(r))])

EnsureNext ==
    \/ \E p \in DirectCallers : directCall(p)
    \/ \E p \in DirectCallers : ensureUserInTeam(p)

EnsureSpec == EnsureInit /\ [][EnsureNext]_vars

(***************************************************************************)
(* POST /api/admin/setup: createAdministrator(insertAdmin), one step per   *)
(* awaited statement.                                                      *)
(***************************************************************************)
AdminEmails == {"a@example.org", "b@example.org", "c@example.org"}

\* administrators.email unique()
uniqueAdministratorEmail(A, row) == \A a \in A : a.email # row.email

createAdministrator(p) ==
    LET r == adminProc[p] IN
    /\ mode = "admin"
    /\ UNCHANGED <<companies, users, partnerships, partnershipMembers, mode, proc, calls, connVars>>
    /\ IF r.pc = "idle"
       THEN \* update administrators set is_active = false where is_active = true
            \E e \in AdminEmails :
                /\ administrators' = {[a EXCEPT !.isActive = FALSE] : a \in administrators}
                /\ adminProc' = [adminProc EXCEPT ![p] = [pc |-> "insert", email |-> e]]
                /\ UNCHANGED nextId
       ELSE \* insert into administrators values ({...insertAdmin, isActive: true})
            LET admin == [id |-> nextId, email |-> r.email, isActive |-> TRUE,
                          createdAt |-> nextId]
            IN  /\ IF uniqueAdministratorEmail(administrators, admin)
                   THEN /\ administrators' = insertRow(administrators, admin)
                        /\ nextId' = nextId + 1
                   ELSE UNCHANGED <<administrators, nextId>>
                /\ adminProc' = [adminProc EXCEPT ![p] = IdleAdmin]

AdminInit ==
    /\ companies = {}
    /\ users = {}
    /\ partnerships = {}
    /\ partnershipMembers = {}
    /\ nextId = 1
    /\ mode = "admin"
    /\ proc = [p \in Procs |-> IdleProc]
    /\ calls = <<>>
    /\ AdminQuiet
    /\ ConnQuiet

AdminNext == \E p \in Procs : createAdministrator(p)

AdminSpec == AdminInit /\ [][AdminNext]_vars

(***************************************************************************)
(* db.ts: the resolution of the connection string when the module is       *)
(* loaded, switchDatabase and getConnectionDiagnostics.  Reading a file    *)
(* that exists succeeds.                                                   *)
(***************************************************************************)
\* What the environment and the two files may hold when the server starts,
\* and the argument of switchDatabase.
EnvOverrideInputs == {EmptyString, Url("pw1", "host1")}
DbOverrideInputs == {NoFile, File(EmptyString), File(Url("pw2", "host2"))}
ReplitDbInputs == {NoFile, File(EmptyString), File(Url("pw3", "host3"))}
DatabaseUrlInputs == {EmptyString, Url("pw4", "host4")}
SwitchInputs == {Url("pw5", "host5")}

\* connectionString and connectionSource after the four steps of the load
resolveConnection(env, fs) ==
    IF env.DB_URL_OVERRIDE # EmptyString
    THEN [connectionString |-> env.DB_URL_OVERRIDE, connectionSource |-> "env-override"]
    ELSE IF fs.dbOverride.exists /\ fs.dbOverride.content # EmptyString
    THEN [connectionString |-> fs.dbOverride.content, connectionSource |-> "db-override"]
    ELSE IF fs.replitdb.exists /\ fs.replitdb.content # EmptyString
    THEN [connectionString |-> fs.replitdb.content, connectionSource |-> "replitdb"]
    ELSE [connectionString |-> env.DATABASE_URL, connectionSource |-> "env"]

\* connectionString.match(/@([^\/]+)/)?.[1] || 'unknown'
hostOf(cs) == IF cs.host = "" THEN "unknown" ELSE cs.host

\* currentConnectionString.replace(/:[^:@]*@/, ':****@')
maskedUrlOf(cs) == IF cs = EmptyString THEN cs ELSE [cs EXCEPT !.pw = "****"]

\* currentConnectionString and currentSource of getConnectionDiagnostics
currentConnection(env, fs) ==
    IF fs.dbOverride.exists
    THEN [connectionString |-> fs.dbOverride.content, connectionSource |-> "db-override"]
    ELSE IF env.DB_URL_OVERRIDE # EmptyString
    THEN [connectionString |-> env.DB_URL_OVERRIDE, connectionSource |-> "env-override"]
    ELSE IF fs.replitdb.exists
    THEN [connectionString |-> fs.replitdb.content, connectionSource |-> "replitdb"]
    ELSE [connectionString |-> env.DATABASE_URL, connectionSource |-> "env"]

Loaded == pool.by \in {"load", "switchDatabase"}

\* The module body of db.ts
loadModule ==
    /\ mode = "connection"
    /\ pool.by = "none"
    /\ LET resolved == resolveConnection(environ, files)
       IN  /\ connectionString' = resolved.connectionString
           /\ connectionSource' = resolved.connectionSource
           /\ pool' = IF resolved.connectionString = EmptyString
                      THEN \* throw new Error("DATABASE_URL must be set...")
                           [connectionString |-> EmptyString, by |-> "failed"]
                      ELSE [connectionString |-> resolved.connectionString, by |-> "load"]
    /\ UNCHANGED <<companies, users, partnerships, partnershipMembers, nextId, mode, proc,
                   calls, adminVars, environ, files, diagnostics>>

switchDatabase(newConnectionString) ==
    /\ mode = "connection"
    /\ Loaded
    /\ \E written \in BOOLEAN :
          files' = IF written
                   THEN [files EXCEPT !.dbOverride = File(newConnectionString)]
                   ELSE \* catch: could not write /tmp/db-override
                        files
    /\ pool' = [connectionString |-> newConnectionString, by |-> "switchDatabase"]
    /\ UNCHANGED <<companies, users, partnerships, partnershipMembers, nextId, mode, proc,
                   calls, adminVars, environ, connectionString, connectionSource,
                   diagnostics>>

\* The record returned, next to the pool that was active at the call.
getConnectionDiagnostics ==
    /\ mode = "connection"
    /\ Loaded
    /\ LET current == currentConnection(environ, files)
       IN  diagnostics' = [source |-> current.connectionSource,
                           host |-> hostOf(current.connectionString),
                           maskedUrl |-> maskedUrlOf(current.connectionString),
                           pool |-> pool]
    /\ UNCHANGED <<companies, users, partnerships, partnershipMembers, nextId, mode, proc,
                   calls, adminVars, environ, files, connectionString, connectionSource,
                   pool>>

ConnInit ==
    /\ companies = {}
    /\ users = {}
    /\ partnerships = {}
    /\ partnershipMembers = {}
    /\ nextId = 1
    /\ mode = "connection"
    /\ proc = [p \in Procs |-> IdleProc]
    /\ calls = <<>>
    /\ AdminQuiet
    /\ environ \in [DB_URL_OVERRIDE : EnvOverrideInputs, DATABASE_URL : DatabaseUrlInputs]
    /\ files \in [dbOverride : DbOverrideInputs, replitdb : ReplitDbInputs]
    /\ connectionString = EmptyString
    /\ connectionSource = "env"
    /\ pool = NoPool
    /\ diagnostics = NoDiagnostics

ConnNext ==
    \/ loadModule
    \/ \E newConnectionString \in SwitchInputs : switchDatabase(newConnectionString)
    \/ getConnectionDiagnostics

ConnSpec == ConnInit /\ [][ConnNext]_vars

(***************************************************************************)
(* Properties.                                                             *)
(***************************************************************************)
IsJoin(call) == call.companyId # NULL /\ call.err # "users_company_id_fk"

\* The finished createUser calls that named the stored company c, in order.
Joins(c) ==
    LET OfCompany(call) == IsJoin(call) /\ call.companyId = c
    IN  SelectSeq(calls, OfCompany)

LegalGroupSize(g) == g >= 2 /\ g <= 10

\* Every join of company c read the team size g.
JoinedWith(c, g) == \A i \in 1..Len(Joins(c)) : Joins(c)[i].groupSize = g

TeamsOf(c, n) == {t \in partnerships : t.companyId = c /\ t.teamNumber = n}

MembersOfTeam(t) == {m.userId : m \in {x \in partnershipMembers : x.partnershipId = t.id}}

\* The users holding a membership in team n of company c.
MemberUsers(c, n) == UNION {MembersOfTeam(t) : t \in TeamsOf(c, n)}

Committed(userId) == \E u \in users : u.id = userId

\* C1: for a company with a team size in 2..10, when users join one after
\* another every join succeeds, and afterwards team k exists for each k up to
\* the number of joins and is led by the k-th user who joined.
C1_SequentialJoinsSucceed ==
    \A c \in CompanyIds, g \in GroupSizeInputs :
        (LegalGroupSize(g) /\ JoinedWith(c, g)) =>
            \A k \in 1..Len(Joins(c)) :
                /\ Joins(c)[k].result = "ok"
                /\ \E t \in TeamsOf(c, k) : t.leaderId = Joins(c)[k].userId

\* C2: a committed user row with a company exists exactly together with the
\* rows of its assignment: such a user leads a team of the company and has a
\* membership row in it, and no team or membership row names a user whose
\* creation did not commit.
C2_UserAndTeamRowsTogether ==
    /\ \A u \in users :
          u.companyId # NULL =>
              \E t \in partnerships :
                  /\ t.companyId = u.companyId
                  /\ t.leaderId = u.id
                  /\ u.id \in MembersOfTeam(t)
    /\ \A t \in partnerships : Committed(t.leaderId)
    /\ \A m \in partnershipMembers : Committed(m.userId)

\* A request holds the row of a user of a stored company in its open
\* transaction and its assignment was stopped by the store.
C2_Witness ==
    \E p \in Procs :
        /\ proc[p].pc = "throw"
        /\ proc[p].user # NoRow
        /\ proc[p].user.companyId # NULL
        /\ proc[p].err = "valid_team_number"
        /\ ~Committed(proc[p].user.id)
        /\ C2_UserAndTeamRowsTogether

StoredIds ==
    {u.id : u \in users} \cup {t.id : t \in partnerships}
        \cup {m.id : m \in partnershipMembers}

\* C3: when createUser fails in the assignment, no user row, team row or
\* membership row written by that call persists.
C3_FailedCallLeavesNothing ==
    \A i \in 1..Len(calls) :
        calls[i].result = "error" => calls[i].wrote \cap StoredIds = {}

\* A call for a stored company wrote its user row, failed in the assignment
\* and is finished, next to a call that committed its row.
C3_Witness ==
    /\ \E i \in 1..Len(calls) :
          /\ calls[i].result = "error"
          /\ IsJoin(calls[i])
          /\ calls[i].wrote # {}
          /\ calls[i].wrote \cap StoredIds = {}
    /\ \E i \in 1..Len(calls) : calls[i].result = "ok"

\* The team the membership step of the join at position pos goes to.
MembershipTeamOf(pos, g) == (pos - 1) \div (g - 1) + 1

C5_MembersByPosition ==
    \A c \in CompanyIds, g \in GroupSizeInputs :
        (LegalGroupSize(g) /\ JoinedWith(c, g)) =>
            \A k \in 1..Len(Joins(c)) :
                MemberUsers(c, k) =
                    {Joins(c)[i].userId :
                        i \in {j \in k..Len(Joins(c)) : (j - k) % (g - 1) = 0}}

\* C6: with team size 4 and five users A, B, C, D, E joining in that order,
\* team 1 is led by A and has B, C and D as members, E leads team 5 and is a
\* member of team 2.
C6_FiveJoinsOfFour ==
    \A c \in CompanyIds :
        (JoinedWith(c, 4) /\ Len(Joins(c)) = 5) =>
            LET A == Joins(c)[1].userId
                B == Joins(c)[2].userId
                C == Joins(c)[3].userId
                D == Joins(c)[4].userId
                E == Joins(c)[5].userId
            IN  /\ \E t \in TeamsOf(c, 1) : t.leaderId = A
                /\ {B, C, D} \subseteq MemberUsers(c, 1)
                /\ \E t \in TeamsOf(c, 5) : t.leaderId = E
                /\ E \in MemberUsers(c, 2)

\* C7: no two team rows of one company have the same team number.
C7_UniqueCompanyTeam ==
    \A t1 \in partnerships, t2 \in partnerships :
        (t1.companyId = t2.companyId /\ t1.teamNumber = t2.teamNumber) => t1 = t2

Target(p, q) ==
    /\ proc[p].companyId = proc[q].companyId
    /\ proc[p].teamNumber = proc[q].teamNumber

UniqueViolations ==
    {"partnerships_group_id_unique", "unique_active_leader_idx",
     "unique_filling_team_idx", "unique_company_team"}

\* Two callers raced for the same team of the same company: both found it
\* absent, one inserted it, the insert of the other was rejected.
C7_Witness ==
    \E p \in DirectCallers, q \in DirectCallers :
        /\ p # q
        /\ Target(p, q)
        /\ proc[p].pc = "throw"
        /\ proc[p].err \in UniqueViolations
        /\ proc[p].outcomes = <<>>
        /\ \E t \in TeamsOf(proc[q].companyId, proc[q].teamNumber.v) : t.id \in proc[q].wrote

\* C8: each company has at most one team with status filling, and every team
\* row the engine inserts has status filling.
C8_OneFillingTeam ==
    /\ \A t1 \in partnerships, t2 \in partnerships :
          (/\ t1.companyId = t2.companyId
           /\ t1.status = "filling"
           /\ t2.status = "filling") => t1 = t2
    /\ \A p \in Procs, t \in partnerships : t.id \in proc[p].wrote => t.status = "filling"

\* A caller asked for a new team in a company that has a filling team with
\* another number, and the store rejected the insert.
C8_Witness ==
    \E p \in DirectCallers :
        /\ proc[p].pc = "throw"
        /\ proc[p].err = "unique_filling_team_idx"
        /\ \E t \in partnerships :
              /\ t.companyId = proc[p].companyId
              /\ t.status = "filling"
              /\ t.teamNumber # proc[p].teamNumber.v

\* C9: no user leads two teams of one company whose statuses are both in
\* {filling, complete}.
C9_OneActiveLeadership ==
    \A t1 \in partnerships, t2 \in partnerships :
        (/\ t1.companyId = t2.companyId
         /\ t1.leaderId = t2.leaderId
         /\ t1.status \in ActiveStatuses
         /\ t2.status \in ActiveStatuses) => t1 = t2

\* A caller asked for a new team for a user who leads an active team of the
\* company, and the store rejected the insert.
C9_Witness ==
    \E p \in DirectCallers :
        /\ proc[p].pc = "throw"
        /\ proc[p].err = "unique_active_leader_idx"
        /\ \E t \in partnerships :
              /\ t.companyId = proc[p].companyId
              /\ t.leaderId = proc[p].userId
              /\ t.status \in ActiveStatuses

MemberRows(c, n, userId) ==
    {m \in partnershipMembers :
        /\ m.userId = userId
        /\ \E t \in TeamsOf(c, n) : m.partnershipId = t.id}

\* The caller's latest invocation of ensureUserInTeam is over.
Over(p) == proc[p].pc \in {"returned", "throw"}

InLeadershipStep(p) ==
    /\ proc[p].user # NoRow
    /\ proc[p].user.companyId # NULL
    /\ proc[p].isLeader
    /\ proc[p].pc \in {"ensure_select", "ensure_insert_team", "ensure_insert_member",
                       "assign_after_leader", "tx_commit", "throw"}

\* C12: of two concurrent joins of one company whose leadership steps target
\* the same team number, neither createUser call fails.
C12_ConcurrentJoinsBothComplete ==
    \A p \in Procs, q \in Procs :
        (p # q /\ InLeadershipStep(p) /\ InLeadershipStep(q) /\ Target(p, q)) =>
            proc[p].pc # "throw" /\ proc[q].pc # "throw"

\* C13: a createUser call that names a company with no row fails with the
\* error Company not found, and no row it wrote is stored.
C13_UnknownCompanyNotFound ==
    \A p \in Procs :
        (/\ proc[p].pc = "throw"
         /\ proc[p].companyId # NULL
         /\ selectCompany(companies, proc[p].companyId) = {}) =>
            /\ proc[p].err = "Company not found"
            /\ proc[p].wrote \cap StoredIds = {}

\* The errors raised by the store for a statement.
StoreErrors ==
    UniqueViolations \cup
        {"valid_team_number", "partnerships_company_id_fk", "partnerships_leader_id_fk",
         "unique_partnership_user", "partnership_members_partnership_id_fk",
         "partnership_members_user_id_fk", "users_company_id_fk",
         "invalid_integer_parameter"}

\* C14: an assignment that read a team size below 2 stops in assignUserToTeam
\* with an error of its own: it never calls ensureUserInTeam with a team
\* number computed from that size, and it writes no team or membership row.
C14_SmallTeamSizeIsFatal ==
    \A p \in Procs :
        (/\ proc[p].user # NoRow
         /\ proc[p].user.companyId # NULL
         /\ proc[p].pc # "assign_company"
         /\ proc[p].groupSize < 2) =>
            /\ proc[p].pc \in {"assign_users", "throw"}
            /\ proc[p].err \notin StoreErrors
            /\ proc[p].wrote \subseteq {proc[p].user.id}

\* C15: the team size of every stored company is between 2 and 10.
C15_GroupSizeInRange ==
    \A c \in companies : LegalGroupSize(c.groupSize)

MembershipsOf(c, userId) ==
    {t \in partnerships : t.companyId = c /\ userId \in MembersOfTeam(t)}

CeilDiv(n, g) == (n + g - 1) \div g

\* C18: after N sequential joins of a company with team size G the company
\* has ceil(N / G) team rows.
C18_TeamCount ==
    \A c \in CompanyIds, g \in GroupSizeInputs :
        (LegalGroupSize(g) /\ JoinedWith(c, g)) =>
            Cardinality({t \in partnerships : t.companyId = c}) = CeilDiv(Len(Joins(c)), g)

PositionRead(p) ==
    /\ proc[p].user # NoRow
    /\ proc[p].user.companyId # NULL
    /\ proc[p].pc \notin {"idle", "assign_company", "assign_users"}

\* C22: the position computed for a new user is at least 1, and every team
\* number passed to ensureUserInTeam lies in 1..1000.
C22_PositionAtLeastOne ==
    \A p \in Procs :
        PositionRead(p) =>
            /\ proc[p].position >= 1
            /\ isFinite(proc[p].teamNumber)
            /\ proc[p].teamNumber.v >= 1
            /\ proc[p].teamNumber.v <= 1000

\* C23: the position a request computes counts committed user rows only: the
\* rows that concurrent createUser calls hold in their open transactions do
\* not move it, so two requests in flight compute the same position.
C23_PositionIgnoresOpenInserts ==
    \A p \in Procs :
        PositionRead(p) =>
            proc[p].position <=
                Cardinality({u \in users : u.companyId = proc[p].companyId})

\* Two requests for distinct users of one company are in flight and both have
\* computed the same position.
C23_Witness ==
    \E p \in Procs, q \in Procs :
        /\ p # q
        /\ PositionRead(p)
        /\ PositionRead(q)
        /\ proc[p].companyId = proc[q].companyId
        /\ proc[p].userId # proc[q].userId
        /\ proc[p].position = proc[q].position

\* The configured team size of company c.
GroupSizeOf(c) == (CHOOSE x \in companies : x.id = c).groupSize

\* The team row into which the latest invocation of caller p inserted a
\* membership row.
AddedMemberTo(p, t) ==
    \E m \in partnershipMembers : m.id \in proc[p].wrote /\ m.partnershipId = t.id

C26_RowsOnlyAccumulate ==
    [][/\ \A t \in partnerships : t \in partnerships'
       /\ \A m \in partnershipMembers : m \in partnershipMembers']_vars

\* A call inserted a team row and a membership row next to a team row that
\* was stored before.
C26_Witness ==
    \E p \in DirectCallers :
        /\ proc[p].pc = "returned"
        /\ \E t \in partnerships : t.id \in proc[p].wrote
        /\ \E m \in partnershipMembers : m.id \in proc[p].wrote
        /\ \E t \in partnerships :
              /\ t.id \notin proc[p].wrote
              /\ t.leaderId \in MembersOfTeam(t)

\* A finished createUser call for a user with no company inserted the user
\* row and nothing else, and a finished call for a user of a stored company
\* went through the assignment.
NullCompanyInsertsUserOnly ==
    /\ \A i \in 1..Len(calls) :
          calls[i].companyId = NULL =>
              /\ calls[i].result = "ok"
              /\ calls[i].wrote = {calls[i].userId}
              /\ Committed(calls[i].userId)
    /\ \A i \in 1..Len(calls) : IsJoin(calls[i]) => calls[i].groupSize # 0
    /\ \A p \in Procs :
          (proc[p].user # NoRow /\ proc[p].user.companyId = NULL) => proc[p].pc = "tx_commit"

\* A request enters assignUserToTeam only by the step of createUser that
\* inserted the row of a user with a company, and that step always enters it.
EngineEnteredByInsert ==
    \A p \in Procs :
        /\ (proc[p].pc # "assign_company" /\ proc'[p].pc = "assign_company") =>
               /\ proc[p].pc = "idle"
               /\ proc'[p].user.companyId # NULL
        /\ (/\ proc[p].pc = "idle"
            /\ proc'[p].user # NoRow
            /\ proc'[p].user.companyId # NULL) => proc'[p].pc = "assign_company"
        /\ (proc'[p].user # NoRow /\ proc'[p].user.companyId = NULL) =>
               /\ partnerships' = partnerships
               /\ partnershipMembers' = partnershipMembers

\* C27: the assignment runs once for every created user that has a company,
\* and createUser for a user with no company inserts the user row only and
\* leaves the team and membership rows as they are.
C27_EngineOncePerCompanyUser ==
    []NullCompanyInsertsUserOnly /\ [][EngineEnteredByInsert]_vars

\* A call for a user with no company committed its row, and a call for a user
\* of a stored company went through the assignment.
C27_Witness ==
    /\ \E i \in 1..Len(calls) :
          /\ calls[i].companyId = NULL
          /\ calls[i].result = "ok"
          /\ Committed(calls[i].userId)
    /\ \E i \in 1..Len(calls) : IsJoin(calls[i]) /\ calls[i].groupSize # 0

C29_OneActiveAdministrator ==
    Cardinality({a \in administrators : a.isActive}) <= 1

\* C30: the connection is resolved with priority DB_URL_OVERRIDE >
\* /tmp/db-override > /tmp/replitdb > DATABASE_URL, and what
\* getConnectionDiagnostics returns is the source, host and masked connection
\* string of the pool that was active at the call.
C30_DiagnosticsMatchPool ==
    /\ pool.by = "load" =>
          /\ pool.connectionString = connectionString
          /\ environ.DB_URL_OVERRIDE # EmptyString => connectionSource = "env-override"
          /\ connectionSource = "db-override" =>
                connectionString = files.dbOverride.content
          /\ connectionSource = "replitdb" =>
                /\ connectionString = files.replitdb.content
                /\ ~(files.dbOverride.exists /\ files.dbOverride.content # EmptyString)
          /\ connectionSource = "env" => connectionString = environ.DATABASE_URL
    /\ diagnostics # NoDiagnostics =>
          /\ diagnostics.maskedUrl = maskedUrlOf(diagnostics.pool.connectionString)
          /\ diagnostics.host = hostOf(diagnostics.pool.connectionString)
          /\ diagnostics.pool.by = "load" => diagnostics.source = connectionSource

====
